---- MODULE Spec2Model ----
(***************************************************************************)
(* ROI calculator (src/ROI_Calc.py): the aggregator calculate_roi_agentiq, *)
(* the Calculate button's click handler, the chart series of               *)
(* generate_graphs and the report export of generate_summary.              *)
(*                                                                         *)
(* Numbers.  The program computes on binary floating point.  The model     *)
(* draws every amount from the multiples of 1/Scale USD and keeps them as  *)
(* integers counted in that unit; head counts and hours are whole numbers. *)
(* On such values (dyadic for Scale = 8, far below 2^53) the program's     *)
(* sums, differences and products are exact, so the integer arithmetic     *)
(* below is the program's.  A quotient (the ROI) is kept as an exact       *)
(* fraction num/den.  A formatted value is the text the program builds, a  *)
(* sequence of characters such as "580,000.00".                            *)
(***************************************************************************)
EXTENDS Integers, Sequences, FiniteSets, TLC

\* Every record below lists its fields in the order in which their names first
\* appear in this module: TLC keeps a record's fields in that order, and the
\* values of Clicks are shared by its workers.

\* Amounts are multiples of 1/Scale USD (1/8 USD = 12.5 cents: sub-cent values occur).
Scale == 8

\* The fields one input of the model may set away from its base go up to MaxVal units.
MaxVal == 2

-----------------------------------------------------------------------------
(* Arithmetic helpers *)

Abs(x) == IF x < 0 THEN -x ELSE x

\* Fractions num/den with den > 0.
Frac(num, den) == [num |-> num, den |-> den]

\* k*n = quo*d + rem with 0 <= rem < d, computed without forming k*n.
ScaledDiv(n, d, k) ==
    LET q0 == n \div d
        r0 == n % d
    IN  [quo |-> k * q0 + (k * r0) \div d, rem |-> (k * r0) % d]

\* Round k*n/d to the nearest integer, ties to the even one: what Python's
\* float formatting does with an exactly representable value.
RoundHalfEven(n, d, k) ==
    LET s == ScaledDiv(n, d, k)
    IN  IF 2 * s.rem < d THEN s.quo
        ELSE IF 2 * s.rem > d THEN s.quo + 1
        ELSE IF s.quo % 2 = 0 THEN s.quo ELSE s.quo + 1

\* Whether k*n/d lies within half a unit of the integer h.
WithinHalf(n, d, k, h) ==
    LET s == ScaledDiv(n, d, k)
    IN  \/ h = s.quo /\ 2 * s.rem <= d
        \/ h = s.quo + 1 /\ 2 * s.rem >= d

-----------------------------------------------------------------------------
(* f"{x:,.2f}" and float(s.replace(',', '')) *)

FractionDigits == 2

Pow10(k) == IF k = 0 THEN 1 ELSE IF k = 1 THEN 10 ELSE IF k = 2 THEN 100 ELSE 1000

DigitChars == <<"0", "1", "2", "3", "4", "5", "6", "7", "8", "9">>

DigitChar(v) == DigitChars[v + 1]

DigitVal(c) == CHOOSE v \in 0..9 : DigitChars[v + 1] = c

IsDigit(c) == \E v \in 0..9 : DigitChars[v + 1] = c

RECURSIVE Digits(_)
Digits(m) == IF m < 10 THEN <<DigitChar(m)>> ELSE Digits(m \div 10) \o <<DigitChar(m % 10)>>

\* w digits of m, zero padded on the left.
RECURSIVE Padded(_, _)
Padded(m, w) == IF w = 0 THEN <<>> ELSE Padded(m \div 10, w - 1) \o <<DigitChar(m % 10)>>

\* The "," option: the integer part in groups of three digits.
RECURSIVE Grouped(_)
Grouped(m) ==
    IF m < 1000 THEN Digits(m)
    ELSE Grouped(m \div 1000) \o <<",">> \o Padded(m % 1000, 3)

\* f"{x:,.2f}" of the value x.num / x.den: rounded to two fraction digits, the sign
\* that of x itself (a small negative value prints "-0.00").
Format(x) ==
    LET h == RoundHalfEven(x.num, x.den, Pow10(FractionDigits))
        m == Abs(h)
    IN  (IF x.num < 0 THEN <<"-">> ELSE <<>>)
        \o Grouped(m \div Pow10(FractionDigits))
        \o <<".">>
        \o Padded(m % Pow10(FractionDigits), FractionDigits)

\* s.replace(',', '')
StripCommas(s) == SelectSeq(s, LAMBDA c : c # ",")

RECURSIVE DigitsValue(_)
DigitsValue(s) ==
    IF s = <<>> THEN 0 ELSE 10 * DigitsValue(SubSeq(s, 1, Len(s) - 1)) + DigitVal(s[Len(s)])

\* float(s) on the texts Format builds: an optional sign, digits, a point and
\* FractionDigits digits; anything else (a "," left in) is a ValueError.  The
\* value is returned in hundredths.
ParseError == [ok |-> FALSE, hundredths |-> 0]

Parsed(h) == [ok |-> TRUE, hundredths |-> h]

Float(s) ==
    LET neg  == s # <<>> /\ s[1] = "-"
        body == IF neg THEN Tail(s) ELSE s
        p    == Len(body) - FractionDigits
    IN  IF /\ p >= 2
           /\ body[p] = "."
           /\ \A i \in (1..Len(body)) \ {p} : IsDigit(body[i])
        THEN LET v == DigitsValue(SubSeq(body, 1, p - 1) \o SubSeq(body, p + 1, Len(body)))
             IN  Parsed(IF neg THEN -v ELSE v)
        ELSE ParseError

\* float(results[key].replace(',', ''))
ParseFloat(s) == Float(StripCommas(s))

-----------------------------------------------------------------------------
(* The input record *)

\* The twelve fields of the first validation, in the order of its list.
NonNegativeParams ==
    <<"revenue_increase", "cost_savings", "productivity_gains",
      "development_costs", "maintenance_costs", "training_costs",
      "licensing_costs", "cloud_costs", "support_ops_costs",
      "average_salary", "time_saved_hours", "hourly_rate">>

Fields == {NonNegativeParams[i] : i \in 1..Len(NonNegativeParams)} \cup {"people_removed"}

\* The widgets' initial values (Scenario B of the specification), amounts in 1/Scale USD.
WidgetDefaults ==
    [revenue_increase |-> 100000 * Scale, cost_savings |-> 50000 * Scale,
     productivity_gains |-> 30000 * Scale,
     development_costs |-> 80000 * Scale, maintenance_costs |-> 20000 * Scale,
     training_costs |-> 10000 * Scale, licensing_costs |-> 15000 * Scale,
     cloud_costs |-> 20000 * Scale, support_ops_costs |-> 10000 * Scale,
     people_removed |-> 5, average_salary |-> 60000 * Scale,
     time_saved_hours |-> 2000, hourly_rate |-> 50 * Scale]

\* Every field zero (Scenario A).
AllZero == [f \in Fields |-> 0]

\* Amounts of a few eighths of a dollar: the totals fall between two cents.
SmallChange ==
    [AllZero EXCEPT !.revenue_increase = 3, !.development_costs = 1,
                    !.people_removed = 1, !.average_salary = 1,
                    !.time_saved_hours = 1, !.hourly_rate = 1]

Bases == {WidgetDefaults, AllZero, SmallChange}

\* What the user may have typed when Calculate is clicked: a base, or a base with
\* one field set to a value of -1..MaxVal (FloatText and IntText accept negatives).
InputRecords ==
    Bases \cup {[b EXCEPT ![f] = v] : b \in Bases, f \in Fields, v \in -1..MaxVal}

-----------------------------------------------------------------------------
(* calculate_roi_agentiq *)

time_saved_value(inp) == inp.time_saved_hours * inp.hourly_rate

people_cost_reduction(inp) == inp.people_removed * inp.average_salary

\* The benefits without the people cost reduction.
total_benefits_NoPeople(inp) ==
    inp.revenue_increase + inp.cost_savings + inp.productivity_gains
      + time_saved_value(inp)

total_benefits(inp) ==
    inp.revenue_increase + inp.cost_savings + inp.productivity_gains
      + time_saved_value(inp) + people_cost_reduction(inp)

total_costs(inp) ==
    inp.development_costs + inp.maintenance_costs + inp.training_costs
      + inp.licensing_costs + inp.cloud_costs + inp.support_ops_costs

\* The difference taken the wrong way round.
net_benefits_Reversed(inp) == total_costs(inp) - total_benefits(inp)

net_benefits(inp) == total_benefits(inp) - total_costs(inp)

\* The ratio without the "* 100".
roi_Ratio(inp) ==
    IF total_costs(inp) # 0
    THEN Frac(net_benefits(inp), total_costs(inp))
    ELSE Frac(0, 1)

\* (net_benefits / total_costs) * 100 if total_costs != 0 else 0, as a fraction.
roi(inp) ==
    IF total_costs(inp) # 0
    THEN Frac(100 * net_benefits(inp), total_costs(inp))
    ELSE Frac(0, 1)

Keys == {"Total Benefits", "Total Costs", "Net Benefits", "ROI (%)",
         "People Cost Reduction", "Time Saved Value"}

\* The returned dictionary.
ResultDict(inp) ==
    ("Total Benefits" :> Format(Frac(total_benefits(inp), Scale)))
    @@ ("Total Costs" :> Format(Frac(total_costs(inp), Scale)))
    @@ ("Net Benefits" :> Format(Frac(net_benefits(inp), Scale)))
    @@ ("ROI (%)" :> Format(roi(inp)))
    @@ ("People Cost Reduction" :> Format(Frac(people_cost_reduction(inp), Scale)))
    @@ ("Time Saved Value" :> Format(Frac(time_saved_value(inp), Scale)))

NoDict == [k \in Keys |-> <<>>]

Returned(d) == [raised |-> FALSE, error |-> "", value |-> d]

Raised(msg) == [raised |-> TRUE, error |-> msg, value |-> NoDict]

\* The first validation with the list's last parameter, hourly_rate, left out.
AnyParamNegative_SkipsLast(inp) ==
    \E i \in 1..(Len(NonNegativeParams) - 1) : inp[NonNegativeParams[i]] < 0

\* The first validation: any of the twelve listed parameters negative.
AnyParamNegative(inp) ==
    \E i \in 1..Len(NonNegativeParams) : inp[NonNegativeParams[i]] < 0

\* The second validation.
PeopleRemovedNegative(inp) == inp.people_removed < 0

calculate_roi_agentiq(inp) ==
    IF AnyParamNegative(inp) THEN Raised("Inputs must be non-negative values.")
    ELSE IF PeopleRemovedNegative(inp)
         THEN Raised("Number of people removed cannot be negative.")
    ELSE Returned(ResultDict(inp))

-----------------------------------------------------------------------------
(* generate_graphs: the seven charts, each followed by its explanation.   *)
(* A step is what one stretch of the function displays, or the exception  *)
(* that ends it.  Chart values are fractions of a dollar.                 *)

Years == <<1, 2, 3>>

\* The ROI trend adds TrendStep percentage points per year.
TrendStep == 10

\* The net-benefit projection's yearly rate, 0.05, as GrowthNum / GrowthDen.
GrowthNum == 1

GrowthDen == 20

HundredthsPerDollar == Pow10(FractionDigits)

Done(its) == [exc |-> "none", items |-> its]

Throws(e) == [exc |-> e, items |-> <<>>]

Chart(t, vs) == [kind |-> "chart", title |-> t, values |-> vs]

Explanation(n) == [kind |-> "html", what |-> "Graph Explanation", graph |-> n]

Graph(n, title, values) == Done(<<Chart(title, values), Explanation(n)>>)

\* revenue, as generate_graphs computes it.
revenue(inputs) ==
    inputs.revenue_increase + inputs.cost_savings + inputs.productivity_gains

\* total_costs, as generate_graphs computes it.
graph_total_costs(inputs) ==
    inputs.development_costs + inputs.maintenance_costs + inputs.training_costs
      + inputs.licensing_costs + inputs.cloud_costs + inputs.support_ops_costs

\* ((revenue - total_costs) / total_costs) * 100 + i * 10, for a nonzero total_costs.
roi_trend_point(inputs, i) ==
    Frac(100 * (revenue(inputs) - graph_total_costs(inputs))
           + i * TrendStep * graph_total_costs(inputs),
         graph_total_costs(inputs))

\* The list comprehension of roi_trend: dividing by a zero total_costs raises.
roi_trend(inputs) ==
    IF graph_total_costs(inputs) = 0 THEN Throws("ZeroDivisionError")
    ELSE Done([i \in 1..Len(Years) |-> roi_trend_point(inputs, Years[i])])

\* The projection started a year early: (1 + (i - 1) * 0.05).
net_benefits_point_FromYearZero(net, i) ==
    Frac(net * (GrowthDen + (i - 1) * GrowthNum), GrowthDen * HundredthsPerDollar)

\* float(results['Net Benefits'].replace(',', '')) * (1 + i * 0.05)
net_benefits_point(net, i) ==
    Frac(net * (GrowthDen + i * GrowthNum), GrowthDen * HundredthsPerDollar)

\* Two parsed values as a chart, or the ValueError of the parse.
ParsedGraph(n, title, a, b) ==
    IF ~a.ok \/ ~b.ok THEN Throws("ValueError")
    ELSE Graph(n, title, <<Frac(a.hundredths, HundredthsPerDollar), Frac(b.hundredths, HundredthsPerDollar)>>)

Graph1(inputs) ==
    Graph(1, "Revenue Components",
          <<Frac(inputs.revenue_increase, Scale), Frac(inputs.cost_savings, Scale),
            Frac(inputs.productivity_gains, Scale)>>)

Graph2(inputs) ==
    Graph(2, "Cost Breakdown",
          <<Frac(inputs.development_costs, Scale), Frac(inputs.maintenance_costs, Scale),
            Frac(inputs.training_costs, Scale), Frac(inputs.licensing_costs, Scale),
            Frac(inputs.cloud_costs, Scale), Frac(inputs.support_ops_costs, Scale)>>)

Graph3(results) ==
    ParsedGraph(3, "Total Benefits vs Total Costs",
                ParseFloat(results["Total Benefits"]), ParseFloat(results["Total Costs"]))

Graph4(results) ==
    ParsedGraph(4, "Cost Reduction vs Time Saved Value",
                ParseFloat(results["People Cost Reduction"]),
                ParseFloat(results["Time Saved Value"]))

Graph5(trend) == Graph(5, "ROI Trend Over 3 Years", trend)

\* np.cumsum([cost_savings, productivity_gains, people_removed * average_salary])
Graph6(inputs) ==
    LET a == inputs.cost_savings
        b == a + inputs.productivity_gains
        c == b + inputs.people_removed * inputs.average_salary
    IN  Graph(6, "Cumulative Savings Over Time",
              <<Frac(a, Scale), Frac(b, Scale), Frac(c, Scale)>>)

Graph7(results) ==
    LET net == ParseFloat(results["Net Benefits"])
    IN  IF ~net.ok THEN Throws("ValueError")
        ELSE Graph(7, "Net Benefits Over Time",
                   [i \in 1..Len(Years) |-> net_benefits_point(net.hundredths, Years[i])])

\* The steps one after the other, up to the first that raises.
RECURSIVE RunSteps(_)
RunSteps(steps) ==
    IF steps = <<>> THEN Done(<<>>)
    ELSE IF Head(steps).exc # "none" THEN Head(steps)
    ELSE LET rest == RunSteps(Tail(steps))
         IN  [exc |-> rest.exc, items |-> Head(steps).items \o rest.items]

generate_graphs(inputs, results) ==
    LET trend == roi_trend(inputs)
    IN  IF trend.exc # "none" THEN Throws(trend.exc)
        ELSE RunSteps(<<Graph1(inputs), Graph2(inputs), Graph3(results), Graph4(results),
                        Graph5(trend.items), Graph6(inputs), Graph7(results)>>)

-----------------------------------------------------------------------------
(* generate_summary: the report, displayed and written to                 *)
(* roi_summary_report.html.  The report's "Generated on" line is left out. *)

NoFile == [exists |-> FALSE, metrics |-> NoDict, roi_status |-> ""]

\* "positive" if float(results['ROI (%)'].replace(',', '')) > 0 else "negative"
roi_status(v) == IF v > 0 THEN "positive" ELSE "negative"

summary_html(results, v) == [exists |-> TRUE, metrics |-> results, roi_status |-> roi_status(v)]

\* What generate_summary displays and what it writes to the report file.
generate_summary(results) ==
    LET v == ParseFloat(results["ROI (%)"])
    IN  IF ~v.ok THEN [exc |-> "ValueError", items |-> <<>>, written |-> NoFile]
        ELSE [exc     |-> "none",
              items   |-> <<[kind |-> "html", what |-> "ROI Summary Report"],
                            [kind |-> "html", what |-> "Download ROI Summary Report"]>>,
              written |-> summary_html(results, v.hundredths)]

-----------------------------------------------------------------------------
(* on_calculate_button_clicked *)

ErrorText(msg) == [kind |-> "text", what |-> "Error: ", message |-> msg]

Table(results) == [kind |-> "table", data |-> results]

WhySonata == [kind |-> "html", what |-> "Why Sonata Software?"]

\* How the handler ends: "returned", or the exception it lets through.
Ended(e) == IF e = "none" THEN "returned" ELSE e

\* A handler without the try block: every exception leaves it.
Except_Uncaught(e, msg, shown, res, wr) ==
    [results |-> res, written |-> wr, outcome |-> e, displayed |-> shown]

\* A handler that writes the report in a finally clause, whatever happened.
Except_Finally(e, msg, shown, res, wr) ==
    IF e = "ValueError"
    THEN [results |-> res, written |-> summary_html(res.value, 0),
          outcome |-> "returned", displayed |-> shown \o <<ErrorText(msg)>>]
    ELSE [results |-> res, written |-> summary_html(res.value, 0),
          outcome |-> Ended(e), displayed |-> shown]

\* An exception inside the try block: a ValueError is caught and its message
\* displayed; any other leaves the handler.  written is what the block wrote to
\* the report file before the exception (NoFile: nothing).
Except(e, msg, shown, res, wr) ==
    IF e = "ValueError"
    THEN [results |-> res, written |-> wr,
          outcome |-> "returned", displayed |-> shown \o <<ErrorText(msg)>>]
    ELSE [results |-> res, written |-> wr, outcome |-> Ended(e), displayed |-> shown]

\* The handler on the widgets' values inputs: how it ends, what it displays and
\* what it writes to the report file.
on_calculate_button_clicked(inputs) ==
    LET results == calculate_roi_agentiq(inputs)
    IN  IF results.raised THEN Except("ValueError", results.error, <<>>, results, NoFile)
        ELSE
          LET shown1 == <<Table(results.value)>>
              graphs == generate_graphs(inputs, results.value)
          IN  IF graphs.exc # "none"
              THEN Except(graphs.exc, "could not convert string to float",
                          shown1 \o graphs.items, results, NoFile)
              ELSE
                LET shown2  == shown1 \o graphs.items \o <<WhySonata>>
                    summary == generate_summary(results.value)
                IN  IF summary.exc # "none"
                    THEN Except(summary.exc, "could not convert string to float",
                                shown2 \o summary.items, results, summary.written)
                    ELSE [results |-> results, written |-> summary.written,
                          outcome |-> "returned", displayed |-> shown2 \o summary.items]

\* The clicks of the model: each input with what the handler does on it (the
\* handler reads the widgets' values and no other state).
Clicks == {[inputs |-> inp, handled |-> on_calculate_button_clicked(inp)] : inp \in InputRecords}

-----------------------------------------------------------------------------
(* The state *)

VARIABLES
    inputs,     \* the widgets' values read by the latest click
    results,    \* what calculate_roi_agentiq did in the latest click
    displayed,  \* what the latest click displayed, in order
    outcome,    \* "idle" before any click; then how the latest click's handler ended
    file,       \* roi_summary_report.html
    exported    \* history: the results of the latest click that displayed the report

vars == <<inputs, results, displayed, outcome, file, exported>>

\* Whether a click displayed the summary report (generate_summary ran to its display).
ReachedExport(shown) ==
    \E i \in 1..Len(shown) : shown[i].kind = "html" /\ shown[i].what = "ROI Summary Report"

Init ==
    /\ inputs = WidgetDefaults
    /\ results = Returned(NoDict)
    /\ displayed = <<>>
    /\ outcome = "idle"
    /\ file = NoFile
    /\ exported = [metrics |-> NoDict, any |-> FALSE]

\* The user clicks Calculate with c.inputs in the widgets.  open(file_path, "w")
\* replaces the file's contents; a click that writes nothing leaves the file.
Click(c) ==
    LET h == c.handled
    IN  /\ inputs' = c.inputs
        /\ results' = h.results
        /\ displayed' = h.displayed
        /\ outcome' = h.outcome
        /\ file' = IF h.written.exists THEN h.written ELSE file
        /\ exported' = IF ReachedExport(h.displayed)
                       THEN [metrics |-> h.results.value, any |-> TRUE]
                       ELSE exported

Next == \E c \in Clicks : Click(c)

Spec == Init /\ [][Next]_vars

-----------------------------------------------------------------------------
(* Properties.  Each is about the latest click: inputs are the values it  *)
(* read, results what the aggregator did, displayed what it showed.       *)

Clicked == outcome # "idle"

\* All 13 fields non-negative.
NonNegative(inp) == \A f \in Fields : inp[f] >= 0

\* The click's aggregator call returned a record.
Computed == Clicked /\ ~results.raised

\* The value the returned text under key k denotes, in hundredths.
Hundredths(k) == ParseFloat(results.value[k]).hundredths

\* The specification's formulas, on the raw inputs (units of 1/Scale USD).
SpecTimeSavedValue(inp) == inp.time_saved_hours * inp.hourly_rate

SpecPeopleCostReduction(inp) == inp.people_removed * inp.average_salary

SpecTotalBenefits(inp) ==
    inp.revenue_increase + inp.cost_savings + inp.productivity_gains
      + SpecTimeSavedValue(inp) + SpecPeopleCostReduction(inp)

SpecTotalCosts(inp) ==
    inp.development_costs + inp.maintenance_costs + inp.training_costs
      + inp.licensing_costs + inp.cloud_costs + inp.support_ops_costs

SpecNetBenefits(inp) == SpecTotalBenefits(inp) - SpecTotalCosts(inp)

\* The amount a (in 1/Scale USD) is exactly h hundredths of a dollar.
ExactlyHundredths(a, h) == ScaledDiv(a, Scale, 100) = [quo |-> h, rem |-> 0]

\* The amount a (in 1/Scale USD), rounded to the cent, is h hundredths.
RoundsToHundredths(a, h) == WithinHalf(a, Scale, 100, h)

ErrorMessages ==
    {"Inputs must be non-negative values.", "Number of people removed cannot be negative."}

\* The chart titled t among the displayed items.
HasChart(t) ==
    \E i \in 1..Len(displayed) : displayed[i].kind = "chart" /\ displayed[i].title = t

ChartValues(t) ==
    LET i == CHOOSE j \in 1..Len(displayed) :
                 displayed[j].kind = "chart" /\ displayed[j].title = t
    IN  displayed[i].values

\* The kinds of the displayed items, in order.
Kinds == [i \in 1..Len(displayed) |-> displayed[i].kind]

-----------------------------------------------------------------------------

\* C1: an input with a negative field (any of the 13) makes the aggregator fail
\* with one of its two invalid-input messages and return no record; an input
\* with all 13 fields non-negative makes it return a record of six texts.
C1_ValidationGate ==
    Clicked =>
        IF NonNegative(inputs)
        THEN /\ ~results.raised
             /\ \A k \in Keys : results.value[k] # <<>>
        ELSE /\ results.raised
             /\ results.error \in ErrorMessages
             /\ results.value = NoDict

\* C1 witness: a click with only people_removed negative was rejected.
C1_Witness ==
    /\ Clicked
    /\ inputs.people_removed < 0
    /\ \A i \in 1..Len(NonNegativeParams) : inputs[NonNegativeParams[i]] >= 0
    /\ results.raised

\* C2 as stated: the returned roi_percent equals (net_benefits / total_costs) * 100
\* when total_costs != 0, and 0 when total_costs = 0.
C2_RoiExact ==
    Computed =>
        IF SpecTotalCosts(inputs) # 0
        THEN ScaledDiv(100 * SpecNetBenefits(inputs), SpecTotalCosts(inputs), 100)
               = [quo |-> Hundredths("ROI (%)"), rem |-> 0]
        ELSE Hundredths("ROI (%)") = 0

\* C2 amended: the returned roi_percent is (net_benefits / total_costs) * 100
\* rounded to two fraction digits (within 0.005 of it) when total_costs != 0,
\* and the text "0.00" when total_costs = 0.
C2_RoiRounded ==
    Computed =>
        IF SpecTotalCosts(inputs) # 0
        THEN WithinHalf(100 * SpecNetBenefits(inputs), SpecTotalCosts(inputs), 100,
                        Hundredths("ROI (%)"))
        ELSE results.value["ROI (%)"] = <<"0", ".", "0", "0">>

\* C2 witness: the default inputs returned "274.19" (425000 / 155000 * 100 = 274.1935...).
C2_Witness ==
    /\ Computed
    /\ inputs = WidgetDefaults
    /\ results.value["ROI (%)"] = <<"2", "7", "4", ".", "1", "9">>

\* C3 as stated: in the output record, total_benefits - total_costs = net_benefits exactly.
C3_NetExactInRecord ==
    Computed =>
        Hundredths("Total Benefits") - Hundredths("Total Costs") = Hundredths("Net Benefits")

\* C3 amended: the returned net_benefits is the difference of the unrounded totals,
\* rounded to two fraction digits; the three returned fields agree to within one
\* cent, and exactly whenever both totals are whole cents.
C3_NetRounded ==
    Computed =>
        LET tb == Hundredths("Total Benefits")
            tc == Hundredths("Total Costs")
            nb == Hundredths("Net Benefits")
        IN  /\ RoundsToHundredths(SpecTotalBenefits(inputs) - SpecTotalCosts(inputs), nb)
            /\ Abs(tb - tc - nb) <= 1
            /\ (/\ ExactlyHundredths(SpecTotalBenefits(inputs), tb)
                /\ ExactlyHundredths(SpecTotalCosts(inputs), tc)) => tb - tc = nb

\* C3 witness: a returned record whose three fields are one cent apart.
C3_Witness ==
    /\ Computed
    /\ Abs(Hundredths("Total Benefits") - Hundredths("Total Costs")
             - Hundredths("Net Benefits")) = 1

\* C4 as stated: the returned fields equal the formulas' values.
C4_FieldsExact ==
    Computed =>
        /\ ExactlyHundredths(SpecTimeSavedValue(inputs), Hundredths("Time Saved Value"))
        /\ ExactlyHundredths(SpecPeopleCostReduction(inputs),
                             Hundredths("People Cost Reduction"))
        /\ ExactlyHundredths(SpecTotalBenefits(inputs), Hundredths("Total Benefits"))
        /\ ExactlyHundredths(SpecTotalCosts(inputs), Hundredths("Total Costs"))

\* C4 amended: each returned field is its formula's value rounded to two fraction
\* digits, the totals being summed from the unrounded terms; the Scenario B
\* inputs return 580,000.00, 155,000.00 and 425,000.00.
C4_FieldsRounded ==
    Computed =>
        /\ RoundsToHundredths(SpecTimeSavedValue(inputs), Hundredths("Time Saved Value"))
        /\ RoundsToHundredths(SpecPeopleCostReduction(inputs),
                              Hundredths("People Cost Reduction"))
        /\ RoundsToHundredths(SpecTotalBenefits(inputs), Hundredths("Total Benefits"))
        /\ RoundsToHundredths(SpecTotalCosts(inputs), Hundredths("Total Costs"))
        /\ inputs = WidgetDefaults =>
             /\ results.value["Total Benefits"]
                  = <<"5", "8", "0", ",", "0", "0", "0", ".", "0", "0">>
             /\ results.value["Total Costs"]
                  = <<"1", "5", "5", ",", "0", "0", "0", ".", "0", "0">>
             /\ results.value["Net Benefits"]
                  = <<"4", "2", "5", ",", "0", "0", "0", ".", "0", "0">>

\* C4 witness: a returned record whose time_saved_value, 1 hour at 0.125 USD,
\* reads "0.12".
C4_Witness ==
    /\ Computed
    /\ SpecTimeSavedValue(inputs) = 1
    /\ results.value["Time Saved Value"] = <<"0", ".", "1", "2">>

\* C6: a click whose input fails validation displays the error message and
\* nothing else (no table, no chart, no report, one message: no retry), and the
\* handler returns normally.
C6_InvalidClickShowsError ==
    (Clicked /\ ~NonNegative(inputs)) =>
        /\ outcome = "returned"
        /\ Len(displayed) = 1
        /\ displayed[1].kind = "text"
        /\ displayed[1].what = "Error: "
        /\ displayed[1].message \in ErrorMessages
        /\ displayed[1].message = results.error

\* C6 witness: a click with a negative hourly_rate ended with the error displayed.
C6_Witness ==
    /\ Clicked
    /\ inputs.hourly_rate < 0
    /\ outcome = "returned"
    /\ Kinds = <<"text">>

\* C7 as stated: the net-benefit projection compounds at 5% a year: year 1 is
\* net_benefits * 1.05 and each later year is the year before times 1.05.
C7_NetProjectionCompounds ==
    (Computed /\ HasChart("Net Benefits Over Time")) =>
        LET v == ChartValues("Net Benefits Over Time")
            u == [i \in 1..Len(v) |-> ScaledDiv(v[i].num, v[i].den, 2000)]
        IN  /\ \A i \in 1..Len(v) : u[i].rem = 0
            /\ u[1].quo = 21 * Hundredths("Net Benefits")
            /\ \A i \in 1..(Len(v) - 1) : 20 * (u[i + 1].quo - u[i].quo) = u[i].quo

\* C7 amended: the projection grows by 5% of the base per year, not compounding:
\* year i is net_benefits * (1 + 0.05 * i), net_benefits being the returned text's value.
C7_NetProjectionLinear ==
    (Computed /\ HasChart("Net Benefits Over Time")) =>
        LET v == ChartValues("Net Benefits Over Time")
        IN  /\ Len(v) = 3
            /\ \A i \in 1..3 :
                 ScaledDiv(v[i].num, v[i].den, 2000)
                   = [quo |-> (20 + i) * Hundredths("Net Benefits"), rem |-> 0]

\* C7 witness: the default inputs' chart, drawn from net benefits of 425,000.00.
C7_Witness ==
    /\ Computed
    /\ inputs = WidgetDefaults
    /\ HasChart("Net Benefits Over Time")
    /\ Hundredths("Net Benefits") = 42500000

\* C8: with total_costs != 0, the ROI trend's point for year i is the aggregator's
\* roi_percent + 10 * i (to the two fraction digits roi_percent is returned with).
C8_TrendFollowsRoi ==
    (Computed /\ HasChart("ROI Trend Over 3 Years") /\ SpecTotalCosts(inputs) # 0) =>
        LET v == ChartValues("ROI Trend Over 3 Years")
        IN  \A i \in 1..3 :
                WithinHalf(v[i].num - 10 * i * v[i].den, v[i].den, 100, Hundredths("ROI (%)"))

\* C9: a click with a valid input, its six cost fields all zero included, returns
\* normally having displayed the table, then the seven charts, then the report.
C9_ValidClickCompletes ==
    (Clicked /\ NonNegative(inputs)) =>
        /\ outcome = "returned"
        /\ Len(displayed) = 18
        /\ displayed[1].kind = "table"
        /\ \A n \in 1..7 : displayed[2 * n].kind = "chart"
        /\ displayed[17].what = "ROI Summary Report"
        /\ file.exists /\ file.metrics = results.value

\* C10: the report file either does not exist or holds the six metrics of the
\* latest click that reached the report export, all six of that one click; a
\* click that did not reach it has left the file as it was.
C10_FileIsLatestExport ==
    /\ file.exists = exported.any
    /\ file.exists =>
         /\ file.metrics = exported.metrics
         /\ \A k \in Keys : file.metrics[k] # <<>>
    /\ (Clicked /\ ReachedExport(displayed)) => file.metrics = results.value

\* C10 witness: a click rejected for a negative input, after one that exported:
\* the file is still there.
C10_Witness ==
    /\ Clicked
    /\ results.raised
    /\ file.exists

====
